---- MODULE Spec2Model ----
(***************************************************************************)
(* The ReAct agent orchestrator of src/agentic/orchestrator.py: one        *)
(* session key of the checkpoint store, the seven graph nodes with their   *)
(* routing functions, and the two public entry points invoke ("Ask") and   *)
(* resume_after_approval ("Approve").                                      *)
(*                                                                         *)
(* `state` is the AgentState dict of the session as the checkpointer holds *)
(* it.  A key the dict does not hold yet is modelled by the default every  *)
(* state.get(key, default) of the code uses for it.  Python's None is the  *)
(* string "None"; a nullable record is None_request / None_step / ...      *)
(* Of the transcript, state.messages keeps what the latest step (a node,   *)
(* or the input of an entry point) handed to the add_messages reducer: the *)
(* messages that step appended, <<>> when it appended none.  The content   *)
(* of a message is the sequence of the pieces its f-string or template is  *)
(* put together from.                                                      *)
(***************************************************************************)
EXTENDS Naturals, Integers, Sequences, FiniteSets, TLC

VARIABLES
    initialized,   \* AgentOrchestrator._initialized
    stored,        \* the checkpointer holds values for the session key
    state,         \* the AgentState of the session key
    pc,            \* the node the running traversal executes next, "END" when none runs
    last_node,     \* the node that ran last; the entry point called last, until a node runs
    call,          \* the call whose traversal is running: its entry point and decision,
                   \* the request pending and the iteration count when it was made,
                   \* and whether the traversal before it ended at await_approval
    llm_response,  \* the LLM text the latest think or analyze_output was answered with
    llm,           \* the decision the latest think parsed from the LLM text
    backend_call,  \* the backend dispatch made by the latest execute_tool, None_call if none
    executor_call, \* the arguments of the latest tool_executor.execute, if any
    result,        \* what the latest entry-point call gave its caller
    config,        \* config["configurable"] of the latest create_config
    parsed,        \* what the latest parse_thread_id returned
    second          \* the graph run of a second caller for the same session key:
                   \* its next node and the AgentState it runs on

vars == <<initialized, stored, state, pc, last_node, call, llm_response, llm,
          backend_call, executor_call, result, config, parsed, second>>

----------------------------------------------------------------------------
(* Bounds *)

\* stands for params.MAX_ITERATIONS (30 in the repository), scaled down
MAX_ITERATIONS == 3
\* no new call is started once current_iteration has reached this value
MaxTotalIterations == 3
\* the same, for the sessions that are called again after the cap
MaxPastCapIterations == 4

----------------------------------------------------------------------------
(* Configuration: src/agentic/params.py *)

REQUIRE_APPROVAL_FOR_EXPLOITATION == TRUE
REQUIRE_APPROVAL_FOR_POST_EXPLOITATION == TRUE

Phase == {"informational", "exploitation", "post_exploitation"}

\* tool name -> phases it is allowed in; a name that is no key has no phase
TOOL_PHASE_MAP ==
    [query_graph        |-> {"informational", "exploitation", "post_exploitation"},
     execute_curl       |-> {"informational", "exploitation", "post_exploitation"},
     execute_naabu      |-> {"informational", "exploitation", "post_exploitation"},
     metasploit_console |-> {"exploitation", "post_exploitation"}]

is_tool_allowed_in_phase_unregistered_ok(tool_name, phase) ==
    LET allowed_phases == IF tool_name \in DOMAIN TOOL_PHASE_MAP
                          THEN TOOL_PHASE_MAP[tool_name] ELSE Phase
    IN  phase \in allowed_phases

is_tool_allowed_in_phase(tool_name, phase) ==
    LET allowed_phases == IF tool_name \in DOMAIN TOOL_PHASE_MAP
                          THEN TOOL_PHASE_MAP[tool_name] ELSE {}
    IN  phase \in allowed_phases

----------------------------------------------------------------------------
(* Inputs *)

\* tool names an LLM decision may carry; the last one is registered nowhere
ToolNames == {"execute_curl", "metasploit_console", "nmap_unregistered"}

\* decision strings resume_after_approval may be handed (it takes any str)
ApprovalInputs == {"approve", "modify", "abort", "later"}

ModificationInputs == {"None", "stay passive"}

\* (decision, modification) pairs of an approval: a modification text comes
\* with the decision "modify"
ApprovalCalls ==
    {c \in ApprovalInputs \X ModificationInputs :
        c[2] # "None" => c[1] = "modify"}

CompletionReasons == {"None", "objective reached"}

\* LLMDecision as pydantic validates it; tool_args is the dict as one value,
\* updated_todo_list the list of its items as model_dump gives them;
\* phase_transition is the to_phase of
\* its PhaseTransitionDecision, and reason, planned_actions and risks are the
\* other fields of that object as think reads them ("" and [] when the
\* decision carries no phase_transition, or one that leaves them out)
LLMDecision ==
    [thought           : {"thought of the LLM"},
     action            : {"use_tool", "transition_phase", "complete"},
     tool_name         : ToolNames \cup {"None"},
     tool_args         : {"None", "args of the LLM"},
     phase_transition  : Phase \cup {"None"},
     reason            : {""},
     planned_actions   : {<<>>},
     risks             : {<<>>},
     completion_reason : CompletionReasons,
     updated_todo_list : {<<>>}]

\* texts that hold no schema-valid decision: prose without an object, an
\* object that is no valid JSON, an object that misses required fields
UnparsableTexts == {"I cannot decide", "{action: run}", "{\"action\": \"complete\"}"}

\* the texts the LLM may answer with: the JSON of a schema-valid decision, or
\* text from which no valid decision is read
LLMResponses ==
    {[text |-> "decision json", valid |-> TRUE, decision |-> d] :
        d \in {x \in LLMDecision :
                  /\ x.completion_reason # "None" => x.action = "complete"
                  /\ x.tool_name # "None" => x.action # "complete"
                  /\ x.tool_args # "None" <=> x.tool_name # "None"
                  /\ x.phase_transition # "None" => x.action = "transition_phase"
                  /\ (x.action = "transition_phase" /\ x.phase_transition = "None")
                         => x.tool_name = "None"
                  /\ x.action = "transition_phase" => x.tool_name # "nmap_unregistered"}}
    \cup {[text |-> x, valid |-> FALSE,
           decision |-> [thought |-> "None", action |-> "None", tool_name |-> "None",
                         tool_args |-> "None",
                         phase_transition |-> "None", reason |-> "",
                         planned_actions |-> <<>>, risks |-> <<>>,
                         completion_reason |-> "None",
                         updated_todo_list |-> <<>>]] :
             x \in UnparsableTexts}

\* the texts the LLM may answer the output analysis with: the JSON of a
\* schema-valid OutputAnalysis (here one that extracted nothing from the
\* tool output), or text from which none is read
AnalysisResponses ==
    {[text |-> "analysis json", valid |-> TRUE,
      extracted_info |-> [primary_target |-> "None", ports |-> <<>>,
                          services |-> <<>>, technologies |-> <<>>,
                          vulnerabilities |-> <<>>, credentials |-> <<>>,
                          sessions |-> <<>>]],
     [text |-> "no analysis", valid |-> FALSE,
      extracted_info |-> [primary_target |-> "None", ports |-> <<>>,
                          services |-> <<>>, technologies |-> <<>>,
                          vulnerabilities |-> <<>>, credentials |-> <<>>,
                          sessions |-> <<>>]]}

\* what a dispatched backend gives back: an ok result, a failed result, nothing
BackendOutcomes == {"ok", "failed", "none"}

----------------------------------------------------------------------------
(* None values of the nullable records *)

None_request == [from_phase |-> "None", to_phase |-> "None", reason |-> "None",
                 planned_actions |-> <<>>, risks |-> <<>>]
None_step == [iteration |-> 0, phase |-> "None", thought |-> "None",
              tool_name |-> "None", tool_args |-> "None",
              success |-> TRUE, error_message |-> "None"]
None_response == [text |-> "None", valid |-> FALSE]
None_decision == [thought |-> "None", action |-> "None", tool_name |-> "None",
                  tool_args |-> "None",
                  phase_transition |-> "None", reason |-> "",
                  planned_actions |-> <<>>, risks |-> <<>>,
                  completion_reason |-> "None", updated_todo_list |-> <<>>]
None_tool_result == [success |-> FALSE, error |-> "None"]
\* TargetInfo(): every field at its default
None_target_info ==
    [primary_target |-> "None", target_type |-> "None", ports |-> <<>>,
     services |-> <<>>, technologies |-> <<>>, vulnerabilities |-> <<>>,
     credentials |-> <<>>, sessions |-> <<>>]
None_call == [tool |-> "None", phase |-> "None"]
None_executor_call == [tool_name |-> "None", tool_args |-> "None", phase |-> "None"]
None_result == [returned |-> FALSE, raised |-> FALSE, error |-> "None",
                task_complete |-> FALSE, awaiting_approval |-> FALSE,
                approval_request |-> None_request]
\* identifiers are strings of at least one character, each a sequence of its
\* characters: the empty one stands for an identifier not given yet
None_config == [thread_id |-> <<>>, user_id |-> <<>>, project_id |-> <<>>,
                session_id |-> <<>>]
None_parsed == <<>>
None_running == [kind |-> "None", decision |-> "None", pending |-> None_request,
                 suspended |-> FALSE, start_iteration |-> 0]

----------------------------------------------------------------------------
(* Init: the orchestrator is constructed, the checkpointer is empty *)

\* the value each key of a new session reads as
InitialState ==
    [current_iteration        |-> 0,
     max_iterations           |-> MAX_ITERATIONS,
     task_complete            |-> FALSE,
     completion_reason        |-> "None",
     current_phase            |-> "informational",
     phase_transition_pending |-> None_request,
     awaiting_user_approval   |-> FALSE,
     user_approval_response   |-> "None",
     user_modification        |-> "None",
     _current_step            |-> None_step,
     _decision                |-> None_decision,
     _tool_result             |-> None_tool_result,
     _just_transitioned_to    |-> "None",
     phase_history            |-> <<"informational">>,
     execution_trace          |-> <<>>,
     target_info              |-> None_target_info,
     todo_list                |-> <<>>,
     messages                 |-> <<>>]

\* no second caller
None_second == [pc |-> "None", state |-> InitialState]

Init ==
    /\ initialized = FALSE
    /\ stored = FALSE
    /\ state = InitialState
    /\ pc = "END"
    /\ last_node = "None"
    /\ call = None_running
    /\ llm_response = None_response
    /\ llm = None_decision
    /\ backend_call = None_call
    /\ executor_call = None_executor_call
    /\ result = None_result
    /\ config = None_config
    /\ parsed = None_parsed
    /\ second = None_second

----------------------------------------------------------------------------
(* Helpers *)

\* Python truthiness of an Optional[str]
Truthy(x) == x \notin {"None", ""}

\* x or y
Or(x, y) == IF Truthy(x) THEN x ELSE y

----------------------------------------------------------------------------
(* Target intelligence: src/agentic/state.py *)

Range(q) == {q[i] : i \in 1..Len(q)}

RECURSIVE SetToSeq(_)
SetToSeq(S) ==
    IF S = {} THEN <<>>
    ELSE LET x == CHOOSE y \in S : TRUE
         IN  <<x>> \o SetToSeq(S \ {x})

Reverse(q) == [i \in 1..Len(q) |-> q[Len(q) + 1 - i]]

\* the iteration orders list(set(...)) is given in the model; Python
\* defines none
SetOrders == {"forward", "reverse"}

\* list(set(q)): the elements of q once each, in the given iteration order
ListOfSet(q, order) ==
    IF order = "forward" THEN SetToSeq(Range(q)) ELSE Reverse(SetToSeq(Range(q)))

merge_from_overwrites(self, other, order) ==
    [primary_target  |-> Or(other.primary_target, self.primary_target),
     target_type     |-> Or(other.target_type, self.target_type),
     ports           |-> ListOfSet(other.ports, order),
     services        |-> ListOfSet(other.services, order),
     technologies    |-> ListOfSet(other.technologies, order),
     vulnerabilities |-> ListOfSet(other.vulnerabilities, order),
     credentials     |-> other.credentials,
     sessions        |-> ListOfSet(other.sessions, order)]

merge_from_takes_latest_target(self, other, order) ==
    LET not_in_self(c) == c \notin Range(self.credentials)
    IN  [primary_target  |-> other.primary_target,
         target_type     |-> Or(other.target_type, self.target_type),
         ports           |-> ListOfSet(self.ports \o other.ports, order),
         services        |-> ListOfSet(self.services \o other.services, order),
         technologies    |-> ListOfSet(self.technologies \o other.technologies, order),
         vulnerabilities |-> ListOfSet(self.vulnerabilities \o other.vulnerabilities,
                                       order),
         credentials     |-> self.credentials
                                 \o SelectSeq(other.credentials, not_in_self),
         sessions        |-> ListOfSet(self.sessions \o other.sessions, order)]

\* TargetInfo.merge_from
merge_from(self, other, order) ==
    LET not_in_self(c) == c \notin Range(self.credentials)
    IN  [primary_target  |-> Or(other.primary_target, self.primary_target),
         target_type     |-> Or(other.target_type, self.target_type),
         ports           |-> ListOfSet(self.ports \o other.ports, order),
         services        |-> ListOfSet(self.services \o other.services, order),
         technologies    |-> ListOfSet(self.technologies \o other.technologies, order),
         vulnerabilities |-> ListOfSet(self.vulnerabilities \o other.vulnerabilities,
                                       order),
         credentials     |-> self.credentials
                                 \o SelectSeq(other.credentials, not_in_self),
         sessions        |-> ListOfSet(self.sessions \o other.sessions, order)]

----------------------------------------------------------------------------
(* Session keys: src/agentic/utils.py *)

\* the session key every call of the orchestrator model is made for
SessionKey == << <<"u">>, <<"p">>, <<"s">> >>

\* f"{user_id}:{project_id}:{session_id}"
get_thread_id(user_id, project_id, session_id) ==
    user_id \o <<":">> \o project_id \o <<":">> \o session_id

\* str.find: the first index of character c in q, 0 if it has none
Find(q, c) ==
    IF \E i \in 1..Len(q) : q[i] = c
    THEN CHOOSE i \in 1..Len(q) : q[i] = c /\ \A j \in 1..(i - 1) : q[j] # c
    ELSE 0

\* q.split(":", maxsplit)
RECURSIVE Split(_, _)
Split(q, maxsplit) ==
    LET i == Find(q, ":")
    IN  IF maxsplit = 0 \/ i = 0 THEN <<q>>
        ELSE <<SubSeq(q, 1, i - 1)>> \o Split(SubSeq(q, i + 1, Len(q)), maxsplit - 1)

parse_thread_id(thread_id) ==
    LET parts == Split(thread_id, 2)
    IN  IF Len(parts) = 3 THEN <<parts[1], parts[2], parts[3]>>
        ELSE <<<<"unknown">>, <<"unknown">>, thread_id>>

create_config(user_id, project_id, session_id) ==
    [thread_id  |-> get_thread_id(user_id, project_id, session_id),
     user_id    |-> user_id,
     project_id |-> project_id,
     session_id |-> session_id]

----------------------------------------------------------------------------
(* Messages: langchain_core.messages and src/agentic/prompts.py *)

HumanMessage(content) == [type |-> "human", content |-> content]

AIMessage(content) == [type |-> "ai", content |-> content]

\* "\n".join(f"- {a}" for a in items)
RECURSIVE JoinBullets(_)
JoinBullets(items) ==
    IF items = <<>> THEN <<>>
    ELSE IF Len(items) = 1 THEN <<"- ", items[1]>>
    ELSE <<"- ", items[1], "\n">> \o JoinBullets(Tail(items))

\* PHASE_TRANSITION_MESSAGE.format(...); planned_actions and risks are the
\* pieces of the two strings handed to it
PHASE_TRANSITION_MESSAGE(from_phase, to_phase, reason, planned_actions, risks) ==
    <<"## Phase Transition Request\n\nI need your approval to proceed from **",
      from_phase, "** to **", to_phase, "**.\n\n### Reason\n", reason,
      "\n\n### Planned Actions\n">>
    \o planned_actions
    \o <<"\n\n### Potential Risks\n">>
    \o risks
    \o <<"\n\n---\n\nPlease respond with:\n- **Approve** - Proceed\n- **Modify** - Adjust\n- **Abort** - Cancel and stay in current phase\n">>

----------------------------------------------------------------------------
(* Routing functions *)

_route_after_initialize(s) ==
    IF Truthy(s.user_approval_response) /\ s.phase_transition_pending # None_request
    THEN "process_approval"
    ELSE "think"

_route_after_think_no_cap(s) ==
    IF s.task_complete THEN "generate_response"
    ELSE IF s.awaiting_user_approval THEN "await_approval"
    ELSE LET action    == s._decision.action
             tool_name == s._decision.tool_name
         IN  IF action = "complete" THEN "generate_response"
             ELSE IF action = "transition_phase"
                  THEN IF s.phase_transition_pending # None_request THEN "await_approval"
                       ELSE IF Truthy(tool_name) THEN "execute_tool"
                       ELSE "generate_response"
             ELSE IF action = "use_tool" /\ Truthy(tool_name) THEN "execute_tool"
             ELSE "generate_response"

_route_after_think(s) ==
    IF s.current_iteration >= s.max_iterations THEN "generate_response"
    ELSE IF s.task_complete THEN "generate_response"
    ELSE IF s.awaiting_user_approval THEN "await_approval"
    ELSE LET action    == s._decision.action
             tool_name == s._decision.tool_name
         IN  IF action = "complete" THEN "generate_response"
             ELSE IF action = "transition_phase"
                  THEN IF s.phase_transition_pending # None_request THEN "await_approval"
                       ELSE IF Truthy(tool_name) THEN "execute_tool"
                       ELSE "generate_response"
             ELSE IF action = "use_tool" /\ Truthy(tool_name) THEN "execute_tool"
             ELSE "generate_response"

_route_after_analyze(s) ==
    IF s.task_complete THEN "generate_response"
    ELSE IF s.current_iteration >= s.max_iterations THEN "generate_response"
    ELSE "think"

_route_after_approval_always_ends(s) == "generate_response"

_route_after_approval(s) ==
    IF s.task_complete THEN "generate_response" ELSE "think"

----------------------------------------------------------------------------
(* Decision parser *)

\* str.rfind: the last index of character c in q, 0 if it has none
RFind(q, c) ==
    IF \E i \in 1..Len(q) : q[i] = c
    THEN CHOOSE i \in 1..Len(q) : q[i] = c /\ \A j \in (i + 1)..Len(q) : q[j] # c
    ELSE 0

\* _extract_json on a text given as the sequence of its characters; None is
\* the empty sequence, which no extraction returns
_extract_json(response_text) ==
    LET json_start == Find(response_text, "{")
        json_end   == RFind(response_text, "}")
    IN  IF json_start >= 1 /\ json_end >= json_start
        THEN SubSeq(response_text, json_start, json_end)
        ELSE <<>>

\* the fallback decision of _parse_llm_decision
FallbackDecision(response_text) ==
    [thought |-> response_text, action |-> "complete", tool_name |-> "None",
     tool_args |-> "None",
     phase_transition |-> "None", reason |-> "", planned_actions |-> <<>>,
     risks |-> <<>>, updated_todo_list |-> <<>>,
     completion_reason |-> "Unable to continue due to response parsing error"]

_parse_llm_decision_trusts_text(response) == response.decision

\* response.valid: _extract_json finds an object in the text and
\* LLMDecision.model_validate_json accepts it
_parse_llm_decision(response) ==
    IF response.valid THEN response.decision
    ELSE FallbackDecision(response.text)

----------------------------------------------------------------------------
(* Node bodies: AgentState before -> AgentState after *)

_initialize_node_resets_iteration(s) ==
    IF Truthy(s.user_approval_response) /\ s.phase_transition_pending # None_request
    THEN [s EXCEPT !.messages = <<>>]
    ELSE [s EXCEPT !.current_iteration = 0,
                   !.messages = <<>>,
                   !.task_complete = FALSE,
                   !.awaiting_user_approval = FALSE,
                   !.phase_transition_pending = None_request]

_initialize_node_resumes_any_request(s) ==
    IF s.phase_transition_pending # None_request
    THEN [s EXCEPT !.messages = <<>>]
    ELSE [s EXCEPT !.messages = <<>>,
                   !.task_complete = FALSE,
                   !.awaiting_user_approval = FALSE,
                   !.phase_transition_pending = None_request]

_initialize_node_keeps_request(s) ==
    IF Truthy(s.user_approval_response) /\ s.phase_transition_pending # None_request
    THEN [s EXCEPT !.messages = <<>>]
    ELSE [s EXCEPT !.messages = <<>>,
                   !.task_complete = FALSE,
                   !.awaiting_user_approval = FALSE]

_initialize_node(s) ==
    IF Truthy(s.user_approval_response) /\ s.phase_transition_pending # None_request
    THEN [s EXCEPT !.messages = <<>>]
    ELSE [s EXCEPT !.messages = <<>>,
                   !.task_complete = FALSE,
                   !.awaiting_user_approval = FALSE,
                   !.phase_transition_pending = None_request]

is_same_phase_never(to_phase, phase) == FALSE

\* the test `to_phase == phase` that makes think ignore a transition request
is_same_phase(to_phase, phase) == to_phase = phase

\* the anti-thrash rewrite of an ignored transition request (both copies of
\* it); the objective of the model's question names no CVE
IgnoredTransition(updates, phase, decision) ==
    IF phase = "exploitation" /\ ~Truthy(decision.tool_name)
    THEN [updates EXCEPT !._decision.action = "use_tool",
                         !._decision.tool_name = "metasploit_console",
                         !._decision.tool_args = "search type:exploit"]
    ELSE IF Truthy(decision.tool_name)
    THEN [updates EXCEPT !._decision.action = "use_tool"]
    ELSE updates

needs_approval_any_phase(to_phase) == TRUE

needs_approval_exploitation_only(to_phase) ==
    to_phase = "exploitation" /\ REQUIRE_APPROVAL_FOR_EXPLOITATION

\* whether think must ask for approval before entering to_phase
needs_approval(to_phase) ==
    \/ to_phase = "exploitation" /\ REQUIRE_APPROVAL_FOR_EXPLOITATION
    \/ to_phase = "post_exploitation" /\ REQUIRE_APPROVAL_FOR_POST_EXPLOITATION

_think_node(s, response) ==
    LET iteration         == s.current_iteration + 1
        phase             == s.current_phase
        just_transitioned == s._just_transitioned_to
        decision          == _parse_llm_decision(response)
        step == [iteration     |-> iteration,
                 phase         |-> phase,
                 thought       |-> decision.thought,
                 tool_name     |-> IF decision.action = "use_tool"
                                   THEN decision.tool_name ELSE "None",
                 tool_args     |-> IF decision.action = "use_tool"
                                   THEN decision.tool_args ELSE "None",
                 success       |-> TRUE,
                 error_message |-> "None"]
        todo_list == IF decision.updated_todo_list # <<>>
                     THEN decision.updated_todo_list ELSE s.todo_list
        updates == [s EXCEPT !.current_iteration = iteration,
                             !.todo_list = todo_list,
                             !._current_step = step,
                             !._decision = decision,
                             !.messages = <<>>,
                             !._just_transitioned_to = "None"]
        to_phase == IF decision.phase_transition # "None"
                    THEN decision.phase_transition ELSE "exploitation"
    IN  IF decision.action = "complete"
        THEN [updates EXCEPT !.task_complete = TRUE,
                             !.completion_reason =
                                 Or(decision.completion_reason, "Task completed")]
        ELSE IF decision.action = "transition_phase"
        THEN IF is_same_phase(to_phase, phase)
             THEN IgnoredTransition(updates, phase, decision)
             ELSE IF Truthy(just_transitioned) /\ to_phase = just_transitioned
             THEN IgnoredTransition(updates, phase, decision)
             ELSE IF needs_approval(to_phase)
             THEN [updates EXCEPT !.phase_transition_pending =
                                      [from_phase      |-> phase,
                                       to_phase        |-> to_phase,
                                       reason          |-> decision.reason,
                                       planned_actions |-> decision.planned_actions,
                                       risks           |-> decision.risks],
                                  !.awaiting_user_approval = TRUE]
             ELSE [updates EXCEPT !.current_phase = to_phase,
                                  !.phase_history = Append(@, to_phase)]
        ELSE updates

\* PhaseAwareToolExecutor.execute: the gate check, then the dispatch.
\* outcome is what the backend does if it is dispatched to.
ToolExecutorExecute(tool_name, phase, outcome) ==
    IF ~is_tool_allowed_in_phase(tool_name, phase)
    THEN [dispatched |-> FALSE, none |-> FALSE, success |-> FALSE,
          error |-> "tool not allowed in phase"]
    ELSE [dispatched |-> TRUE,
          none       |-> (outcome = "none"),
          success    |-> (outcome = "ok"),
          error      |-> IF outcome = "failed" THEN "backend error" ELSE "None"]

_execute_tool_node(s, outcome) ==
    LET step_data == s._current_step
        tool_name == step_data.tool_name
        phase     == s.current_phase
        res       == ToolExecutorExecute(tool_name, phase, outcome)
    IN  IF ~Truthy(tool_name)
        THEN [s EXCEPT !.messages = <<>>,
                       !._current_step.success = FALSE,
                       !._current_step.error_message = "No tool name provided",
                       !._tool_result = [success |-> FALSE,
                                         error |-> "No tool name provided"]]
        ELSE IF ~res.none
        THEN [s EXCEPT !.messages = <<>>,
                       !._current_step.success = res.success,
                       !._current_step.error_message = res.error,
                       !._tool_result = [success |-> res.success, error |-> res.error]]
        ELSE [s EXCEPT !.messages = <<>>,
                       !._current_step.success = FALSE,
                       !._current_step.error_message = "Tool execution returned no result",
                       !._tool_result = [success |-> FALSE, error |-> "No result"]]

\* ExtractedTargetInfo(): what the fallback analysis carries
ExtractedTargetInfo ==
    [primary_target |-> "None", ports |-> <<>>, services |-> <<>>,
     technologies |-> <<>>, vulnerabilities |-> <<>>, credentials |-> <<>>,
     sessions |-> <<>>]

_parse_analysis_response_keeps_extraction(response) ==
    IF response.valid
    THEN [interpretation |-> "interpretation of the LLM",
          extracted_info |-> response.extracted_info]
    ELSE [interpretation |-> response.text,
          extracted_info |-> response.extracted_info]

\* response.valid: _extract_json finds an object in the text and
\* OutputAnalysis.model_validate_json accepts it
_parse_analysis_response(response) ==
    IF response.valid
    THEN [interpretation |-> "interpretation of the LLM",
          extracted_info |-> response.extracted_info]
    ELSE [interpretation |-> response.text,
          extracted_info |-> ExtractedTargetInfo]

_analyze_output_node_keeps_last_step_only(s, response, order) ==
    LET extracted  == _parse_analysis_response(response).extracted_info
        new_target == [extracted @@ [target_type |-> "None"]
                          EXCEPT !.target_type = "None"]
        analysis_summary == _parse_analysis_response(response).interpretation
        message == AIMessage(<<"**Step ", ToString(s._current_step.iteration),
                               "** [", s.current_phase, "]\n\n", analysis_summary>>)
    IN  [s EXCEPT !.execution_trace = <<s._current_step>>,
                  !.target_info = merge_from(@, new_target, order),
                  !.messages = <<message>>]

_analyze_output_node_appends_twice(s, response, order) ==
    LET extracted  == _parse_analysis_response(response).extracted_info
        new_target == [extracted @@ [target_type |-> "None"]
                          EXCEPT !.target_type = "None"]
        analysis_summary == _parse_analysis_response(response).interpretation
        message == AIMessage(<<"**Step ", ToString(s._current_step.iteration),
                               "** [", s.current_phase, "]\n\n", analysis_summary>>)
    IN  [s EXCEPT !.execution_trace = @ \o <<s._current_step, s._current_step>>,
                  !.target_info = merge_from(@, new_target, order),
                  !.messages = <<message>>]

_analyze_output_node_drops_failed_step(s, response, order) ==
    LET extracted  == _parse_analysis_response(response).extracted_info
        new_target == [extracted @@ [target_type |-> "None"]
                          EXCEPT !.target_type = "None"]
        analysis_summary == _parse_analysis_response(response).interpretation
        message == AIMessage(<<"**Step ", ToString(s._current_step.iteration),
                               "** [", s.current_phase, "]\n\n", analysis_summary>>)
    IN  IF s._current_step.success
        THEN [s EXCEPT !.execution_trace = Append(@, s._current_step),
                       !.target_info = merge_from(@, new_target, order),
                       !.messages = <<message>>]
        ELSE [s EXCEPT !.target_info = merge_from(@, new_target, order),
                       !.messages = <<message>>]

\* execution_trace + [step_data], target_info merged with the extraction;
\* the analysis text the LLM adds to the step is left out of the step record.
\* The interpretation is never empty here, so the message never falls back
\* on the tool output.
_analyze_output_node(s, response, order) ==
    LET extracted  == _parse_analysis_response(response).extracted_info
        new_target == [extracted @@ [target_type |-> "None"]
                          EXCEPT !.target_type = "None"]
        analysis_summary == _parse_analysis_response(response).interpretation
        message == AIMessage(<<"**Step ", ToString(s._current_step.iteration),
                               "** [", s.current_phase, "]\n\n", analysis_summary>>)
    IN  [s EXCEPT !.execution_trace = Append(@, s._current_step),
                  !.target_info = merge_from(@, new_target, order),
                  !.messages = <<message>>]

_await_approval_node_truncates(s) ==
    LET transition      == s.phase_transition_pending
        first(items)    == IF items = <<>> THEN <<>> ELSE <<items[1]>>
        planned_actions == JoinBullets(first(transition.planned_actions))
        risks           == JoinBullets(first(transition.risks))
        message ==
            PHASE_TRANSITION_MESSAGE(
                transition.from_phase, transition.to_phase, transition.reason,
                IF planned_actions # <<>> THEN planned_actions
                ELSE <<"- No specific actions planned">>,
                IF risks # <<>> THEN risks
                ELSE <<"- Standard penetration testing risks apply">>)
    IN  [s EXCEPT !.awaiting_user_approval = TRUE,
                  !.messages = <<AIMessage(message)>>]

\* a joined string is empty exactly when its list is: every item puts "- "
\* into it
_await_approval_node(s) ==
    LET transition      == s.phase_transition_pending
        planned_actions == JoinBullets(transition.planned_actions)
        risks           == JoinBullets(transition.risks)
        message ==
            PHASE_TRANSITION_MESSAGE(
                transition.from_phase, transition.to_phase, transition.reason,
                IF planned_actions # <<>> THEN planned_actions
                ELSE <<"- No specific actions planned">>,
                IF risks # <<>> THEN risks
                ELSE <<"- Standard penetration testing risks apply">>)
    IN  [s EXCEPT !.awaiting_user_approval = TRUE,
                  !.messages = <<AIMessage(message)>>]

clear_approval_state_keeps_response(s) ==
    [s EXCEPT !.awaiting_user_approval = FALSE,
              !.phase_transition_pending = None_request]

\* the fields every branch of process_approval clears
clear_approval_state(s) ==
    [s EXCEPT !.awaiting_user_approval = FALSE,
              !.phase_transition_pending = None_request,
              !.user_approval_response = "None",
              !.user_modification = "None"]

_process_approval_node_modify_drops_feedback(s) ==
    LET approval   == s.user_approval_response
        transition == s.phase_transition_pending
    IN  IF approval = "approve"
        THEN [clear_approval_state(s) EXCEPT
                  !.current_phase = transition.to_phase,
                  !.phase_history = Append(@, transition.to_phase),
                  !.messages = <<AIMessage(<<"Phase transition approved. Now in **",
                                             transition.to_phase, "** phase.">>)>>,
                  !._just_transitioned_to = transition.to_phase]
        ELSE IF approval = "modify"
        THEN [clear_approval_state(s) EXCEPT
                  !.messages =
                      <<AIMessage(<<"Understood. Adjusting approach based on your feedback.">>)>>]
        ELSE [clear_approval_state(s) EXCEPT
                  !.task_complete = TRUE,
                  !.completion_reason = "Phase transition cancelled by user",
                  !.messages =
                      <<AIMessage(<<"Phase transition cancelled. Ending session.">>)>>]

_process_approval_node_keeps_history(s) ==
    LET approval   == s.user_approval_response
        transition == s.phase_transition_pending
    IN  IF approval = "approve"
        THEN [clear_approval_state(s) EXCEPT
                  !.current_phase = transition.to_phase,
                  !.messages = <<AIMessage(<<"Phase transition approved. Now in **",
                                             transition.to_phase, "** phase.">>)>>,
                  !._just_transitioned_to = transition.to_phase]
        ELSE IF approval = "modify"
        THEN [clear_approval_state(s) EXCEPT
                  !.messages =
                      <<HumanMessage(<<"User modification: ", s.user_modification>>),
                        AIMessage(<<"Understood. Adjusting approach based on your feedback.">>)>>]
        ELSE [clear_approval_state(s) EXCEPT
                  !.task_complete = TRUE,
                  !.completion_reason = "Phase transition cancelled by user",
                  !.messages =
                      <<AIMessage(<<"Phase transition cancelled. Ending session.">>)>>]

_process_approval_node_sets_no_marker(s) ==
    LET approval   == s.user_approval_response
        transition == s.phase_transition_pending
    IN  IF approval = "approve"
        THEN [clear_approval_state(s) EXCEPT
                  !.current_phase = transition.to_phase,
                  !.phase_history = Append(@, transition.to_phase),
                  !.messages = <<AIMessage(<<"Phase transition approved. Now in **",
                                             transition.to_phase, "** phase.">>)>>]
        ELSE IF approval = "modify"
        THEN [clear_approval_state(s) EXCEPT
                  !.messages =
                      <<HumanMessage(<<"User modification: ", s.user_modification>>),
                        AIMessage(<<"Understood. Adjusting approach based on your feedback.">>)>>]
        ELSE [clear_approval_state(s) EXCEPT
                  !.task_complete = TRUE,
                  !.completion_reason = "Phase transition cancelled by user",
                  !.messages =
                      <<AIMessage(<<"Phase transition cancelled. Ending session.">>)>>]

_process_approval_node_abort_commits(s) ==
    LET approval   == s.user_approval_response
        transition == s.phase_transition_pending
    IN  IF approval = "approve"
        THEN [clear_approval_state(s) EXCEPT
                  !.current_phase = transition.to_phase,
                  !.phase_history = Append(@, transition.to_phase),
                  !.messages = <<AIMessage(<<"Phase transition approved. Now in **",
                                             transition.to_phase, "** phase.">>)>>,
                  !._just_transitioned_to = transition.to_phase]
        ELSE IF approval = "modify"
        THEN [clear_approval_state(s) EXCEPT
                  !.messages =
                      <<HumanMessage(<<"User modification: ", s.user_modification>>),
                        AIMessage(<<"Understood. Adjusting approach based on your feedback.">>)>>]
        ELSE [clear_approval_state(s) EXCEPT
                  !.current_phase = transition.to_phase,
                  !.phase_history = Append(@, transition.to_phase),
                  !.task_complete = TRUE,
                  !.completion_reason = "Phase transition cancelled by user",
                  !.messages =
                      <<AIMessage(<<"Phase transition cancelled. Ending session.">>)>>]

\* phase_history holds the phase of each PhaseHistoryEntry, in order
_process_approval_node(s) ==
    LET approval   == s.user_approval_response
        transition == s.phase_transition_pending
    IN  IF approval = "approve"
        THEN [clear_approval_state(s) EXCEPT
                  !.current_phase = transition.to_phase,
                  !.phase_history = Append(@, transition.to_phase),
                  !.messages = <<AIMessage(<<"Phase transition approved. Now in **",
                                             transition.to_phase, "** phase.">>)>>,
                  !._just_transitioned_to = transition.to_phase]
        ELSE IF approval = "modify"
        THEN [clear_approval_state(s) EXCEPT
                  !.messages =
                      <<HumanMessage(<<"User modification: ", s.user_modification>>),
                        AIMessage(<<"Understood. Adjusting approach based on your feedback.">>)>>]
        ELSE [clear_approval_state(s) EXCEPT
                  !.task_complete = TRUE,
                  !.completion_reason = "Phase transition cancelled by user",
                  !.messages =
                      <<AIMessage(<<"Phase transition cancelled. Ending session.">>)>>]

\* the final report is the text the LLM answers the report prompt with
_generate_response_node(s) ==
    [s EXCEPT !.task_complete = TRUE,
              !.messages = <<AIMessage(<<"final report of the LLM">>)>>]

\* InvokeResponse(error=...): every other field keeps its default
ErrorResponse(error) ==
    [None_result EXCEPT !.returned = TRUE, !.error = error]

\* InvokeResponse built from the final state of a traversal
_build_response(s) ==
    [returned          |-> TRUE,
     raised            |-> FALSE,
     error             |-> "None",
     task_complete     |-> s.task_complete,
     awaiting_approval |-> s.awaiting_user_approval,
     approval_request  |-> s.phase_transition_pending]

----------------------------------------------------------------------------
(* Entry points *)

\* AgentOrchestrator.initialize
Initialize ==
    /\ pc = "END"
    /\ ~initialized
    /\ initialized' = TRUE
    /\ last_node' = "initialize()"
    /\ UNCHANGED <<stored, state, pc, call, llm_response, llm, backend_call, executor_call, result,
                       config, parsed, second>>

\* the guard both entry points start with
RaiseNotInitialized ==
    /\ result' = [None_result EXCEPT !.raised = TRUE,
                                      !.error = "Orchestrator not initialized"]
    /\ UNCHANGED <<initialized, stored, state, pc, call, llm_response, llm, backend_call, executor_call,
                       config, parsed, second>>

\* AgentOrchestrator.invoke up to the start of the graph run, on a session
\* whose iteration count is below limit
InvokeBelow(limit) ==
    /\ pc = "END"
    /\ state.current_iteration < limit
    /\ last_node' = "invoke"
    /\ IF ~initialized
       THEN RaiseNotInitialized
       ELSE /\ stored' = TRUE
            /\ state' = [state EXCEPT !.messages = <<HumanMessage(<<"question">>)>>]
            /\ pc' = "initialize"
            /\ call' = [kind |-> "invoke", decision |-> "None",
                        pending |-> state.phase_transition_pending,
                        suspended |-> (last_node = "await_approval"),
                        start_iteration |-> state.current_iteration]
            /\ result' = None_result
            /\ config' = create_config(SessionKey[1], SessionKey[2], SessionKey[3])
            /\ UNCHANGED <<initialized, llm_response, llm, backend_call, executor_call, parsed, second>>

Invoke == InvokeBelow(MaxTotalIterations)

has_no_values_never(has_values) == FALSE

\* `not current_state or not current_state.values` of resume_after_approval
has_no_values(has_values) == ~has_values

\* AgentOrchestrator.resume_after_approval up to the start of the graph run
ResumeAfterApproval ==
    \E decision \in ApprovalInputs, modification \in ModificationInputs :
        /\ <<decision, modification>> \in ApprovalCalls
        /\ pc = "END"
        /\ state.current_iteration < MaxTotalIterations
        /\ last_node' = "resume_after_approval"
        /\ IF ~initialized
           THEN RaiseNotInitialized
           ELSE IF has_no_values(stored)
           THEN /\ result' = ErrorResponse("No pending session found")
                /\ config' = create_config(SessionKey[1], SessionKey[2], SessionKey[3])
                /\ UNCHANGED <<initialized, stored, state, pc, call, llm_response, llm,
                               backend_call, executor_call, parsed, second>>
           ELSE /\ state' = [state EXCEPT !.user_approval_response = decision,
                                          !.user_modification = modification,
                                          !.messages = <<>>]
                /\ pc' = "initialize"
                /\ call' = [kind |-> "resume_after_approval", decision |-> decision,
                            pending |-> state.phase_transition_pending,
                            suspended |-> (last_node = "await_approval"),
                        start_iteration |-> state.current_iteration]
                /\ result' = None_result
                /\ config' = create_config(SessionKey[1], SessionKey[2], SessionKey[3])
                /\ UNCHANGED <<initialized, stored, llm_response, llm, backend_call, executor_call,
                               parsed, second>>

----------------------------------------------------------------------------
(* Graph steps: one node, then the routing function of its outgoing edge *)

\* a traversal that reached END hands _build_response(final state) to the caller
Goto(next, s) ==
    /\ pc' = next
    /\ result' = IF next = "END" THEN _build_response(s) ELSE result
    /\ call' = IF next = "END" THEN None_running ELSE call

InitializeNode ==
    /\ pc = "initialize"
    /\ state' = _initialize_node(state)
    /\ last_node' = "initialize"
    /\ Goto(_route_after_initialize(state'), state')
    /\ UNCHANGED <<initialized, stored, llm_response, llm, backend_call, executor_call,
                       config, parsed, second>>

\* think answered with one of the given LLM texts
ThinkWith(responses) ==
    \E response \in responses :
        /\ pc = "think"
        /\ state' = _think_node(state, response)
        /\ llm_response' = [f \in DOMAIN response \ {"decision"} |-> response[f]]
        /\ llm' = _parse_llm_decision(response)
        /\ last_node' = "think"
        /\ Goto(_route_after_think(state'), state')
        /\ UNCHANGED <<initialized, stored, backend_call, executor_call,
                       config, parsed, second>>

ThinkNode == ThinkWith(LLMResponses)

ExecuteToolNode ==
    \E outcome \in BackendOutcomes :
        /\ pc = "execute_tool"
        /\ state' = _execute_tool_node(state, outcome)
        /\ backend_call' =
               IF /\ Truthy(state._current_step.tool_name)
                  /\ ToolExecutorExecute(state._current_step.tool_name,
                                         state.current_phase, outcome).dispatched
               THEN [tool |-> state._current_step.tool_name,
                     phase |-> state.current_phase]
               ELSE None_call
        /\ executor_call' =
               IF Truthy(state._current_step.tool_name)
               THEN [tool_name |-> state._current_step.tool_name,
                     tool_args |-> Or(state._current_step.tool_args, "{}"),
                     phase     |-> state.current_phase]
               ELSE None_executor_call
        /\ last_node' = "execute_tool"
        /\ Goto("analyze_output", state')
        /\ UNCHANGED <<initialized, stored, llm_response, llm,
                       config, parsed, second>>

\* analyze_output answered with one of the given LLM texts
AnalyzeWith(responses) ==
    \E response \in responses, order \in SetOrders :
        /\ pc = "analyze_output"
        /\ state' = _analyze_output_node(state, response, order)
        /\ llm_response' = [f \in {"text", "valid"} |-> response[f]]
        /\ last_node' = "analyze_output"
        /\ Goto(_route_after_analyze(state'), state')
        /\ UNCHANGED <<initialized, stored, llm, backend_call, executor_call,
                       config, parsed, second>>

AnalyzeOutputNode == AnalyzeWith(AnalysisResponses)

AwaitApprovalNode ==
    /\ pc = "await_approval"
    /\ state' = _await_approval_node(state)
    /\ last_node' = "await_approval"
    /\ Goto("END", state')
    /\ UNCHANGED <<initialized, stored, llm_response, llm, backend_call, executor_call,
                       config, parsed, second>>

ProcessApprovalNode ==
    /\ pc = "process_approval"
    /\ state' = _process_approval_node(state)
    /\ last_node' = "process_approval"
    /\ Goto(_route_after_approval(state'), state')
    /\ UNCHANGED <<initialized, stored, llm_response, llm, backend_call, executor_call,
                       config, parsed, second>>

GenerateResponseNode ==
    /\ pc = "generate_response"
    /\ state' = _generate_response_node(state)
    /\ last_node' = "generate_response"
    /\ Goto("END", state')
    /\ UNCHANGED <<initialized, stored, llm_response, llm, backend_call, executor_call,
                       config, parsed, second>>

\* the LLM call of think, analyze_output or generate_response raises: the
\* node writes nothing, graph.ainvoke raises, and the entry point's except
\* clause returns InvokeResponse(error=str(e))
LLMCallRaises ==
    /\ pc \in {"think", "analyze_output", "generate_response"}
    /\ pc' = "END"
    /\ result' = ErrorResponse("LLM call failed")
    /\ call' = None_running
    /\ UNCHANGED <<initialized, stored, state, last_node, llm_response, llm, backend_call, executor_call,
                       config, parsed, second>>

Next ==
    \/ Initialize
    \/ Invoke
    \/ ResumeAfterApproval
    \/ InitializeNode
    \/ ThinkNode
    \/ ExecuteToolNode
    \/ AnalyzeOutputNode
    \/ AwaitApprovalNode
    \/ ProcessApprovalNode
    \/ GenerateResponseNode
    \/ LLMCallRaises

Spec == Init /\ [][Next]_vars

\* Sessions that are asked again after the iteration cap: no approval calls,
\* and an LLM that only uses execute_curl or completes.
PastCapResponses ==
    {r \in LLMResponses :
        /\ r.valid
        /\ r.decision.action \in {"use_tool", "complete"}
        /\ r.decision.tool_name \in {"None", "execute_curl"}
        /\ r.decision.completion_reason = "None"}

NextPastCap ==
    \/ Initialize
    \/ InvokeBelow(MaxPastCapIterations)
    \/ InitializeNode
    \/ ThinkWith(PastCapResponses)
    \/ ExecuteToolNode
    \/ AnalyzeOutputNode
    \/ GenerateResponseNode

SpecPastCap == Init /\ [][NextPastCap]_vars

----------------------------------------------------------------------------
(* Sessions whose LLM asks for a phase that needs approval, with the lists *)
(* a PhaseTransitionDecision may carry                                     *)

PlannedActionLists ==
    {<<>>, <<"run the exploit">>, <<"run the exploit", "open a session">>,
     <<"open a session", "run the exploit">>,
     <<"run the exploit", "run the exploit", "open a session">>}

RiskLists ==
    {<<>>, <<"service crash">>, <<"service crash", "data loss">>,
     <<"run the exploit", "service crash">>}

TransitionRequestResponses ==
    {[text |-> "decision json", valid |-> TRUE,
      decision |-> [thought           |-> "thought of the LLM",
                    action            |-> "transition_phase",
                    tool_name         |-> "None",
                    phase_transition  |-> to_phase,
                    tool_args         |-> "None",
                    reason            |-> "a vulnerable service was found",
                    planned_actions   |-> planned_actions,
                    risks             |-> risks,
                    completion_reason |-> "None",
                    updated_todo_list |-> <<>>]] :
        to_phase \in {"exploitation", "post_exploitation"},
        planned_actions \in PlannedActionLists,
        risks \in RiskLists}

NextApprovalMessage ==
    \/ Initialize
    \/ Invoke
    \/ InitializeNode
    \/ ThinkWith(TransitionRequestResponses)
    \/ AwaitApprovalNode
    \/ GenerateResponseNode

SpecApprovalMessage == Init /\ [][NextApprovalMessage]_vars

----------------------------------------------------------------------------
(* Thread ids on their own: the identifiers of a request, then its config, *)
(* then the thread id parsed back                                          *)

\* the longest identifier drawn
MaxIdLen == 2

RECURSIVE StringsOfLen(_)
StringsOfLen(n) ==
    IF n = 0 THEN {<<>>}
    ELSE {<<c>> \o q : c \in {"a", ":"}, q \in StringsOfLen(n - 1)}

\* QueryRequest: any string of at least one character is an identifier
Identifiers == UNION {StringsOfLen(n) : n \in 1..MaxIdLen}

InitThreadId ==
    /\ initialized = FALSE
    /\ stored = FALSE
    /\ state = InitialState
    /\ pc = "END"
    /\ last_node = "None"
    /\ call = None_running
    /\ llm_response = None_response
    /\ llm = None_decision
    /\ backend_call = None_call
    /\ executor_call = None_executor_call
    /\ result = None_result
    /\ config \in {[None_config EXCEPT !.user_id = u, !.project_id = p,
                                       !.session_id = s] :
                       u \in Identifiers, p \in Identifiers, s \in Identifiers}
    /\ parsed = None_parsed
    /\ second = None_second

CreateConfig ==
    /\ config.thread_id = <<>>
    /\ config' = create_config(config.user_id, config.project_id, config.session_id)
    /\ last_node' = "create_config"
    /\ UNCHANGED <<initialized, stored, state, pc, call, llm_response, llm,
                   backend_call, executor_call, result, parsed, second>>

ParseThreadId ==
    /\ config.thread_id # <<>>
    /\ parsed = None_parsed
    /\ second = None_second
    /\ parsed' = parse_thread_id(config.thread_id)
    /\ last_node' = "parse_thread_id"
    /\ UNCHANGED <<initialized, stored, state, pc, call, llm_response, llm,
                   backend_call, executor_call, result, config, second>>

NextThreadId ==
    \/ CreateConfig
    \/ ParseThreadId

SpecThreadId == InitThreadId /\ [][NextThreadId]_vars

----------------------------------------------------------------------------
(* Sessions whose LLM keeps a todo list: every decision carries its view   *)
(* of the list, which may be empty                                         *)

TodoLists ==
    {<<>>,
     <<[id |-> "None", description |-> "scan the target", status |-> "in_progress",
        priority |-> "high"]>>,
     <<[id |-> "None", description |-> "scan the target", status |-> "completed",
        priority |-> "high"],
       [id |-> "None", description |-> "query the graph", status |-> "pending",
        priority |-> "medium"]>>}

TodoResponses ==
    {[text |-> "decision json", valid |-> TRUE,
      decision |-> [thought           |-> "thought of the LLM",
                    action            |-> action,
                    tool_name         |-> IF action = "use_tool"
                                          THEN "execute_curl" ELSE "None",
                    tool_args         |-> IF action = "use_tool"
                                          THEN "args of the LLM" ELSE "None",
                    phase_transition  |-> "None",
                    reason            |-> "",
                    planned_actions   |-> <<>>,
                    risks             |-> <<>>,
                    completion_reason |-> "None",
                    updated_todo_list |-> updated_todo_list]] :
        action \in {"use_tool", "complete"},
        updated_todo_list \in TodoLists}

NextTodo ==
    \/ Initialize
    \/ Invoke
    \/ InitializeNode
    \/ ThinkWith(TodoResponses)
    \/ ExecuteToolNode
    \/ AnalyzeOutputNode
    \/ GenerateResponseNode

SpecTodo == Init /\ [][NextTodo]_vars

----------------------------------------------------------------------------
(* Sessions under a higher iteration cap, asked again and again, whose LLM *)
(* only uses execute_curl or completes: it never asks for a phase          *)

\* the value of MAX_ITERATIONS these sessions were created under
LongSessionIterations == 4

LongSessionResponses == PastCapResponses

InitLongSession ==
    /\ initialized = FALSE
    /\ stored = FALSE
    /\ state = [InitialState EXCEPT !.max_iterations = LongSessionIterations]
    /\ pc = "END"
    /\ last_node = "None"
    /\ call = None_running
    /\ llm_response = None_response
    /\ llm = None_decision
    /\ backend_call = None_call
    /\ executor_call = None_executor_call
    /\ result = None_result
    /\ config = None_config
    /\ parsed = None_parsed
    /\ second = None_second

NextLongSession ==
    \/ Initialize
    \/ InvokeBelow(LongSessionIterations)
    \/ InitializeNode
    \/ ThinkWith(LongSessionResponses)
    \/ ExecuteToolNode
    \/ AnalyzeOutputNode
    \/ GenerateResponseNode

SpecLongSession == InitLongSession /\ [][NextLongSession]_vars

----------------------------------------------------------------------------
(* Sessions whose LLM text is given character by character.  "k" stands   *)
(* for the members of a decision that completes the task (text without     *)
(* braces), "p" for a character of prose; an object that is the value of a *)
(* member stands in braces after a "k".                                    *)

\* the longest LLM text drawn
MaxTextLen == 6

RECURSIVE TextsOfLen(_)
TextsOfLen(n) ==
    IF n = 0 THEN {<<>>}
    ELSE {<<c>> \o q : c \in {"{", "}", "k", "p"}, q \in TextsOfLen(n - 1)}

Texts == UNION {TextsOfLen(n) : n \in 1..MaxTextLen}

\* the texts LLMDecision.model_validate_json accepts: one JSON object with the
\* required members, flat or with one object-valued member
DecisionJsonTexts ==
    {<<"{", "k", "}">>,
     <<"{", "k", "{", "}", "}">>,
     <<"{", "k", "{", "k", "}", "}">>}

\* the decision every accepted text denotes
DecisionOfJson ==
    [thought           |-> "thought of the LLM",
     action            |-> "complete",
     tool_name         |-> "None",
     tool_args         |-> "None",
     phase_transition  |-> "None",
     reason            |-> "",
     planned_actions   |-> <<>>,
     risks             |-> <<>>,
     completion_reason |-> "objective reached",
     updated_todo_list |-> <<>>]

\* the LLM answers with any text; json_str is what _parse_llm_decision hands
\* to the validation
TextResponses ==
    {[text     |-> q,
      json_str |-> _extract_json(q),
      valid    |-> _extract_json(q) \in DecisionJsonTexts,
      decision |-> DecisionOfJson] : q \in Texts}

\* Ask is called on the new session only: below one iteration
NextExtract ==
    \/ Initialize
    \/ InvokeBelow(1)
    \/ InitializeNode
    \/ ThinkWith(TextResponses)
    \/ GenerateResponseNode

SpecExtract == Init /\ [][NextExtract]_vars

----------------------------------------------------------------------------
(* Sessions in which every LLM call and every tool call returns, and the   *)
(* graph run, once started, goes on to its next node; they are asked again *)
(* after the cap too.  The LLM uses execute_curl, completes, or asks for   *)
(* the exploitation phase.                                                 *)

LiveResponses ==
    {r \in LLMResponses :
        /\ r.valid
        /\ r.decision.completion_reason = "None"
        /\ \/ r.decision.action = "complete"
           \/ r.decision.action = "use_tool" /\ r.decision.tool_name = "execute_curl"
           \/ /\ r.decision.action = "transition_phase"
              /\ r.decision.phase_transition = "exploitation"
              /\ r.decision.tool_name = "None"}

\* the steps of a graph run
TraversalStep ==
    \/ InitializeNode
    \/ ThinkWith(LiveResponses)
    \/ ExecuteToolNode
    \/ AnalyzeOutputNode
    \/ AwaitApprovalNode
    \/ ProcessApprovalNode
    \/ GenerateResponseNode

NextLive ==
    \/ Initialize
    \/ InvokeBelow(MaxPastCapIterations)
    \/ ResumeAfterApproval
    \/ TraversalStep

SpecLive == Init /\ [][NextLive]_vars /\ WF_vars(TraversalStep)

----------------------------------------------------------------------------
(* Two callers of one session key.  The query endpoint awaits invoke       *)
(* without any lock, so a second request for the key is served while the   *)
(* graph run of the first waits for its LLM or its tool.  Each graph run   *)
(* works on the AgentState it loaded and writes a checkpoint for the key   *)
(* after every node.  The sessions are followed until both runs are over.  *)

ConcurrentResponses ==
    {r \in LiveResponses : r.decision.action \in {"use_tool", "complete"}}

\* query -> invoke of the second caller, while the run of the first is under way
ConcurrentInvoke ==
    /\ initialized
    /\ pc # "END"
    /\ second.pc = "None"
    /\ second' = [pc    |-> "initialize",
                 state |-> [state EXCEPT !.messages = <<HumanMessage(<<"question">>)>>]]
    /\ UNCHANGED <<initialized, stored, state, pc, last_node, call, llm_response, llm,
                   backend_call, executor_call, result, config, parsed>>

\* the node the run of the second caller executes next, and its routing
SecondNode(s, node, response, outcome, analysis, order) ==
    CASE node = "initialize" ->
             LET s2 == _initialize_node(s)
             IN  [pc |-> _route_after_initialize(s2), state |-> s2]
      [] node = "think" ->
             LET s2 == _think_node(s, response)
             IN  [pc |-> _route_after_think(s2), state |-> s2]
      [] node = "execute_tool" ->
             [pc |-> "analyze_output", state |-> _execute_tool_node(s, outcome)]
      [] node = "analyze_output" ->
             LET s2 == _analyze_output_node(s, analysis, order)
             IN  [pc |-> _route_after_analyze(s2), state |-> s2]
      [] node = "await_approval" ->
             [pc |-> "END", state |-> _await_approval_node(s)]
      [] node = "process_approval" ->
             LET s2 == _process_approval_node(s)
             IN  [pc |-> _route_after_approval(s2), state |-> s2]
      [] node = "generate_response" ->
             [pc |-> "END", state |-> _generate_response_node(s)]

\* one node of the run of the second caller
SecondStep ==
    \E response \in ConcurrentResponses, outcome \in BackendOutcomes,
       analysis \in AnalysisResponses, order \in SetOrders :
        /\ second.pc \notin {"None", "END"}
        /\ second' = SecondNode(second.state, second.pc, response, outcome, analysis, order)
        /\ UNCHANGED <<initialized, stored, state, pc, last_node, call, llm_response,
                       llm, backend_call, executor_call, result, config, parsed>>

\* Ask is called on the new session only: below one iteration
NextConcurrent ==
    \/ Initialize
    \/ InvokeBelow(1)
    \/ ConcurrentInvoke
    \/ InitializeNode
    \/ ThinkWith(ConcurrentResponses)
    \/ ExecuteToolNode
    \/ AnalyzeOutputNode
    \/ GenerateResponseNode
    \/ SecondStep

SpecConcurrent == Init /\ [][NextConcurrent]_vars

----------------------------------------------------------------------------
(* Sessions whose tool output holds intelligence: the LLM answers the      *)
(* output analysis with an OutputAnalysis that extracted something, or     *)
(* with a text no OutputAnalysis is read from.  The LLM of think uses      *)
(* execute_curl, completes, or asks for the exploitation phase.            *)

\* the credential dicts an extraction may list
Credentials ==
    {[username |-> "admin", password |-> "admin"],
     [username |-> "root", password |-> "toor"]}

\* ExtractedTargetInfo values: any list of each field validates, with
\* repeated items or without
ExtractedInfos ==
    {ExtractedTargetInfo,
     [ExtractedTargetInfo EXCEPT !.primary_target = "10.0.0.5",
                                 !.ports = <<80>>,
                                 !.services = <<"http">>],
     [ExtractedTargetInfo EXCEPT !.primary_target = "target.example",
                                 !.ports = <<443, 80>>,
                                 !.credentials =
                                     <<[username |-> "admin", password |-> "admin"]>>],
     [ExtractedTargetInfo EXCEPT !.vulnerabilities = <<"CVE-2021-41773">>,
                                 !.credentials =
                                     <<[username |-> "root", password |-> "toor"],
                                       [username |-> "root", password |-> "toor"]>>],
     [ExtractedTargetInfo EXCEPT !.primary_target = "",
                                 !.technologies = <<"nginx">>,
                                 !.sessions = <<1>>,
                                 !.credentials =
                                     <<[username |-> "root", password |-> "toor"],
                                       [username |-> "admin", password |-> "admin"]>>]}

\* the texts the LLM may answer the output analysis with: the JSON of an
\* OutputAnalysis with the given extracted_info; prose; an object that names
\* an extracted_info but fails the validation (it has no interpretation)
ExtractionResponses ==
    {[text |-> "analysis json", valid |-> TRUE, extracted_info |-> e] :
        e \in ExtractedInfos}
    \cup {[text |-> "the scan found nothing I can read", valid |-> FALSE,
           extracted_info |-> ExtractedTargetInfo],
          [text |-> "{\"extracted_info\": {\"ports\": [22]}}", valid |-> FALSE,
           extracted_info |-> [ExtractedTargetInfo EXCEPT !.ports = <<22>>]]}

NextAnalysis ==
    \/ Initialize
    \/ Invoke
    \/ ResumeAfterApproval
    \/ InitializeNode
    \/ ThinkWith(LiveResponses)
    \/ ExecuteToolNode
    \/ AnalyzeWith(ExtractionResponses)
    \/ AwaitApprovalNode
    \/ ProcessApprovalNode
    \/ GenerateResponseNode

SpecAnalysis == Init /\ [][NextAnalysis]_vars

----------------------------------------------------------------------------
(* TargetInfo.merge_from on its own: a record T, merged with one TargetInfo *)
(* after the other                                                         *)

MergeInputs ==
    {[primary_target  |-> IF p = <<>> THEN "None" ELSE "10.0.0.5",
      target_type     |-> IF p = <<>> THEN "None" ELSE "ip",
      ports           |-> p,
      services        |-> sv,
      technologies    |-> <<>>,
      vulnerabilities |-> <<>>,
      credentials     |-> <<>>,
      sessions        |-> ss] :
        p  \in {<<>>, <<80>>, <<443, 80>>, <<80, 80>>},
        sv \in {<<>>, <<"http">>},
        ss \in {<<>>, <<1>>}}
    \cup {[None_target_info EXCEPT !.technologies = <<"nginx">>,
                                   !.vulnerabilities = <<"CVE-2021-41773">>],
          [None_target_info EXCEPT !.primary_target = "target.example",
                                   !.target_type = "hostname",
                                   !.technologies = <<"apache", "nginx">>,
                                   !.credentials = <<"admin:admin">>],
          [None_target_info EXCEPT !.vulnerabilities = <<"CVE-2017-0144">>,
                                   !.sessions = <<2, 1>>]}

InitMerge ==
    /\ initialized = FALSE
    /\ stored = FALSE
    /\ state \in {[InitialState EXCEPT !.target_info = T] : T \in MergeInputs}
    /\ pc = "END"
    /\ last_node = "None"
    /\ call = None_running
    /\ llm_response = None_response
    /\ llm = None_decision
    /\ backend_call = None_call
    /\ executor_call = None_executor_call
    /\ result = None_result
    /\ config = None_config
    /\ parsed = None_parsed
    /\ second = None_second

MergeFrom ==
    \E other \in MergeInputs, order \in SetOrders :
        /\ state' = [state EXCEPT !.target_info = merge_from(@, other, order)]
        /\ last_node' = "merge_from"
        /\ UNCHANGED <<initialized, stored, pc, call, llm_response, llm,
                       backend_call, executor_call, result,
                       config, parsed, second>>

NextMerge == MergeFrom

SpecMerge == InitMerge /\ [][NextMerge]_vars

----------------------------------------------------------------------------
(* Properties *)

\* the step runs node n
Ran(n) == pc = n /\ last_node' = n

\* the step is a call of resume_after_approval on an initialized orchestrator
ApproveCalled == pc = "END" /\ initialized /\ last_node' = "resume_after_approval"

\* C1: current_phase changes to exploitation or post_exploitation only in
\* process_approval run for an Approve call with decision "approve" that was
\* made while the Transition Request to that phase was pending; never in a
\* traversal started by Ask.
C1_PhaseEnteredOnlyByApprove ==
    [][ (/\ state'.current_phase # state.current_phase
         /\ state'.current_phase \in {"exploitation", "post_exploitation"})
        => /\ Ran("process_approval")
           /\ call.kind = "resume_after_approval"
           /\ call.decision = "approve"
           /\ call.pending.to_phase = state'.current_phase ]_vars

\* C2: Approve on a stored session that is not suspended fails: the result
\* carries an error, no node runs and the stored state is left as it was.
C2_ApproveUnsuspendedFails ==
    [][ (/\ ApproveCalled
         /\ stored
         /\ ~state.awaiting_user_approval
         /\ state.phase_transition_pending = None_request)
        => /\ result'.returned
           /\ result'.error # "None"
           /\ pc' = "END"
           /\ state' = state ]_vars

\* C3: Approve on a key with no stored Session State returns the error
\* "No pending session found", runs no node and stores nothing for the key.
C3_ApproveWithoutSession ==
    [][ (ApproveCalled /\ ~stored)
        => /\ result'.returned
           /\ result'.error = "No pending session found"
           /\ pc' = "END"
           /\ ~stored'
           /\ state' = state ]_vars

C3_Witness ==
    /\ initialized
    /\ ~stored
    /\ last_node = "resume_after_approval"
    /\ pc = "END"
    /\ result.error = "No pending session found"

\* the tool is in the phase's allow-list
InAllowList(tool, phase) ==
    tool \in DOMAIN TOOL_PHASE_MAP /\ phase \in TOOL_PHASE_MAP[tool]

\* C4: the Tool Executor dispatches to a backend only a tool in the phase's
\* allow-list; any other tool gets success=false with an error and no backend
\* call; metasploit_console and unregistered names are never dispatched while
\* current_phase is informational.
C4_DispatchOnlyAllowed ==
    /\ backend_call # None_call => InAllowList(backend_call.tool, backend_call.phase)
    /\ (/\ last_node = "execute_tool"
        /\ ~InAllowList(state._current_step.tool_name, state.current_phase))
       => /\ backend_call = None_call
          /\ ~state._current_step.success
          /\ state._current_step.error_message # "None"
    /\ backend_call.phase = "informational"
       => backend_call.tool \notin {"metasploit_console", "nmap_unregistered"}

C4_Witness ==
    /\ last_node = "execute_tool"
    /\ state.current_phase = "informational"
    /\ state._current_step.tool_name = "metasploit_console"
    /\ backend_call = None_call
    /\ ~state._current_step.success
    /\ state._current_step.error_message = "tool not allowed in phase"

\* C5: think and analyze_output, finishing with current_iteration >=
\* max_iterations, are followed by generate_response; execute_tool never runs
\* at an iteration number >= max_iterations.
C5_CapRoutesToResponse ==
    [][ /\ (Ran("think") /\ state'.current_iteration >= state'.max_iterations)
           => pc' = "generate_response"
        /\ (Ran("analyze_output") /\ state'.current_iteration >= state'.max_iterations)
           => pc' = "generate_response"
        /\ \A it \in 0..MaxTotalIterations, tc \in BOOLEAN :
               it >= state.max_iterations
               => _route_after_analyze([state EXCEPT !.current_iteration = it,
                                                     !.task_complete = tc])
                  = "generate_response"
        /\ Ran("execute_tool") => state.current_iteration < state.max_iterations ]_vars

C5_Witness ==
    /\ last_node = "think"
    /\ state.current_iteration >= state.max_iterations
    /\ state._decision.action = "use_tool"
    /\ state._decision.tool_name = "execute_curl"
    /\ ~state.task_complete
    /\ pc = "generate_response"

\* C6: every run of think adds exactly 1 to current_iteration and no other
\* step (any other node, Ask, Approve) changes it, so it never decreases.
C6_IterationCountsThinks ==
    [][ /\ Ran("think") => state'.current_iteration = state.current_iteration + 1
        /\ ~Ran("think") => state'.current_iteration = state.current_iteration ]_vars

C6_Witness ==
    /\ last_node = "initialize"
    /\ call.kind = "invoke"
    /\ state.current_iteration = MAX_ITERATIONS - 1

\* C7: current_iteration <= max_iterations in every reachable Session State.
C7_IterationWithinCap == state.current_iteration <= state.max_iterations

\* C8: a think decision transition_phase whose to_phase is the current phase
\* sets neither phase_transition_pending nor awaiting_user_approval, and
\* await_approval is not the next node.
C8_SamePhaseNeverSuspends ==
    [][ (/\ Ran("think")
         /\ llm'.action = "transition_phase"
         /\ llm'.phase_transition = state.current_phase)
        => /\ state'.phase_transition_pending = None_request
           /\ ~state'.awaiting_user_approval
           /\ pc' # "await_approval" ]_vars

C8_Witness ==
    /\ last_node = "think"
    /\ llm.action = "transition_phase"
    /\ llm.phase_transition = "exploitation"
    /\ state._current_step.phase = "exploitation"
    /\ state.current_phase = "exploitation"
    /\ state.phase_transition_pending = None_request
    /\ pc = "execute_tool"

\* C9: right after process_approval the four gate fields are cleared, whatever
\* the decision was.
C9_ApprovalStateCleared ==
    last_node = "process_approval"
    => /\ ~state.awaiting_user_approval
       /\ state.phase_transition_pending = None_request
       /\ state.user_approval_response = "None"
       /\ state.user_modification = "None"

C9_Witness ==
    /\ last_node = "process_approval"
    /\ call.kind = "resume_after_approval"
    /\ call.decision = "later"
    /\ call.pending # None_request
    /\ state.user_approval_response = "None"

\* C10: after a traversal that ended at await_approval with request R pending,
\* Approve with decision "approve" runs process_approval, which sets
\* current_phase to R.to_phase, and think is the node that follows it.
C10_ApproveEntersPhase ==
    [][ (/\ call.kind = "resume_after_approval"
         /\ call.decision = "approve"
         /\ call.suspended
         /\ call.pending # None_request)
        => /\ Ran("initialize") => pc' = "process_approval"
           /\ Ran("process_approval")
              => /\ state'.current_phase = call.pending.to_phase
                 /\ pc' = "think" ]_vars

C10_Witness ==
    /\ last_node = "process_approval"
    /\ call.kind = "resume_after_approval"
    /\ call.decision = "approve"
    /\ call.suspended
    /\ call.pending.to_phase = "exploitation"
    /\ state.current_phase = "exploitation"
    /\ pc = "think"

\* C11: in a traversal started by Approve with decision "abort" while a request
\* is pending, initialize is followed by process_approval, which sets
\* task_complete with completion_reason "Phase transition cancelled by user"
\* and leaves current_phase and phase_history as they were, and then
\* generate_response runs: think, execute_tool and analyze_output never run.
C11_AbortCancels ==
    [][ (/\ call.kind = "resume_after_approval"
         /\ call.decision = "abort"
         /\ call.pending # None_request)
        => /\ pc' \in {"process_approval", "generate_response", "END"}
           /\ Ran("initialize") => pc' = "process_approval"
           /\ Ran("process_approval")
              => /\ state'.task_complete
                 /\ state'.completion_reason = "Phase transition cancelled by user"
                 /\ state'.current_phase = state.current_phase
                 /\ state'.phase_history = state.phase_history
                 /\ pc' = "generate_response" ]_vars

C11_Witness ==
    /\ last_node = "process_approval"
    /\ call.kind = "resume_after_approval"
    /\ call.decision = "abort"
    /\ call.pending # None_request
    /\ state.task_complete
    /\ state.completion_reason = "Phase transition cancelled by user"
    /\ pc = "generate_response"

\* the phase a transition_phase decision asks for
RequestedPhase(decision) ==
    IF decision.phase_transition # "None" THEN decision.phase_transition
    ELSE "exploitation"

\* the phases the configuration requires approval for
PhasesNeedingApproval ==
    {p \in {"exploitation"} : REQUIRE_APPROVAL_FOR_EXPLOITATION}
    \cup {p \in {"post_exploitation"} : REQUIRE_APPROVAL_FOR_POST_EXPLOITATION}

C13_ApprovalRequestOnlySuspended ==
    (pc = "END" /\ result.returned)
    => /\ result.approval_request # None_request => last_node = "await_approval"
       /\ last_node = "generate_response"
          => /\ result.approval_request = None_request
             /\ ~result.awaiting_approval

\* the order of the phases
PhaseRank(p) ==
    CASE p = "informational"     -> 1
      [] p = "exploitation"      -> 2
      [] p = "post_exploitation" -> 3

\* C14: current_phase moves to an earlier phase only in a step of
\* process_approval that handles the decision "approve"; think never does it.
C14_NoRegressionWithoutApproval ==
    [][ PhaseRank(state'.current_phase) < PhaseRank(state.current_phase)
        => /\ Ran("process_approval")
           /\ state.user_approval_response = "approve" ]_vars

\* C15: a think answered with text that holds no schema-valid decision parses
\* the fallback decision (action complete, the raw text as thought, the
\* parsing-error completion_reason), sets task_complete and is followed by
\* generate_response; the traversal then ends without execute_tool having run
\* and the caller is handed a result, not an exception.
C15_UnparsableTextCompletes ==
    [][ /\ (Ran("think") /\ ~llm_response'.valid)
           => /\ llm' = [thought           |-> llm_response'.text,
                         action            |-> "complete",
                         tool_name         |-> "None",
                         tool_args         |-> "None",
                         updated_todo_list |-> <<>>,
                         phase_transition  |-> "None",
                         reason            |-> "",
                         planned_actions   |-> <<>>,
                         risks             |-> <<>>,
                         completion_reason |->
                             "Unable to continue due to response parsing error"]
              /\ state'._decision = llm'
              /\ state'.task_complete
              /\ state'.completion_reason =
                     "Unable to continue due to response parsing error"
              /\ pc' = "generate_response"
        /\ (last_node = "think" /\ ~llm_response.valid /\ pc = "generate_response")
           => /\ pc' = "END"
              /\ result'.returned
              /\ ~result'.raised ]_vars

C15_Witness ==
    /\ last_node = "generate_response"
    /\ pc = "END"
    /\ llm_response.text \in UnparsableTexts
    /\ llm.thought = llm_response.text
    /\ llm.action = "complete"
    /\ state.task_complete
    /\ result.returned
    /\ result.task_complete

\* C16: execute_tool copies a failed tool result (failed backend, policy
\* rejection, missing result, missing tool name) into the current step as
\* success = FALSE with an error message and is followed by analyze_output;
\* analyze_output appends the failed step to execution_trace and is followed
\* by think unless the task is complete or the iteration cap is reached.
C16_FailedToolStepRecorded ==
    [][ /\ Ran("execute_tool")
           => /\ pc' = "analyze_output"
              /\ state'._current_step.success = state'._tool_result.success
              /\ ~state'._tool_result.success
                 => /\ ~state'._current_step.success
                    /\ Truthy(state'._current_step.error_message)
        /\ (Ran("analyze_output") /\ ~state._current_step.success)
           => /\ state'.execution_trace =
                     Append(state.execution_trace, state._current_step)
              /\ pc' = IF \/ state'.task_complete
                          \/ state'.current_iteration >= state'.max_iterations
                       THEN "generate_response" ELSE "think" ]_vars

C16_Witness ==
    /\ last_node = "analyze_output"
    /\ pc = "think"
    /\ state.execution_trace # <<>>
    /\ LET last == state.execution_trace[Len(state.execution_trace)]
       IN  /\ ~last.success
           /\ last.tool_name = "metasploit_console"
           /\ last.error_message = "tool not allowed in phase"

\* the set-valued fields of a TargetInfo, each as the set of its elements
SetFields(t) ==
    [ports           |-> Range(t.ports),
     services        |-> Range(t.services),
     technologies    |-> Range(t.technologies),
     vulnerabilities |-> Range(t.vulnerabilities),
     sessions        |-> Range(t.sessions)]

\* C17: for the record T at hand and all A, B: merging A into merge(T, A)
\* again gives the same sets as merge(T, A), and merging A then B gives the
\* same sets as merging B then A.
C17_MergeIdempotentCommutative ==
    \A A, B \in MergeInputs, o1, o2 \in SetOrders :
        LET T   == state.target_info
            TA  == merge_from(T, A, o1)
            TB  == merge_from(T, B, o2)
        IN  /\ SetFields(merge_from(TA, A, o2)) = SetFields(TA)
            /\ SetFields(merge_from(TA, B, o2)) = SetFields(merge_from(TB, A, o1))

C17_Witness ==
    /\ last_node = "merge_from"
    /\ Range(state.target_info.ports) = {80, 443}
    /\ Range(state.target_info.sessions) = {1, 2}
    /\ Range(state.target_info.technologies) = {"apache", "nginx"}

\* the elements of a occur in b, in the order they have in a
RECURSIVE IsSubseq(_, _)
IsSubseq(a, b) ==
    IF a = <<>> THEN TRUE
    ELSE IF b = <<>> THEN FALSE
    ELSE IF Head(a) = Head(b) THEN IsSubseq(Tail(a), Tail(b))
    ELSE IsSubseq(a, Tail(b))

\* C18: the message await_approval produces for the pending request R is one
\* assistant message whose content holds every element of R.planned_actions
\* in order when that list is non-empty and the line "- No specific actions
\* planned" when it is empty, and likewise every element of R.risks in order
\* or the line "- Standard penetration testing risks apply".
C18_ApprovalMessageListsEverything ==
    [][ Ran("await_approval")
        => LET R       == state.phase_transition_pending
               content == state'.messages[1].content
           IN  /\ Len(state'.messages) = 1
               /\ state'.messages[1].type = "ai"
               /\ R.planned_actions # <<>> => IsSubseq(R.planned_actions, content)
               /\ R.planned_actions = <<>>
                  => "- No specific actions planned" \in Range(content)
               /\ R.risks # <<>> => IsSubseq(R.risks, content)
               /\ R.risks = <<>>
                  => "- Standard penetration testing risks apply" \in Range(content) ]_vars

C18_Witness ==
    /\ last_node = "await_approval"
    /\ state.phase_transition_pending.planned_actions =
           <<"run the exploit", "run the exploit", "open a session">>
    /\ state.phase_transition_pending.risks = <<>>
    /\ "- Standard penetration testing risks apply"
           \in Range(state.messages[1].content)
    /\ IsSubseq(<<"- ", "run the exploit", "\n", "- ", "run the exploit", "\n",
                  "- ", "open a session">>, state.messages[1].content)

\* C19: invoke and resume_after_approval never raise to their caller: what
\* the caller of either gets is always a returned result, also when the
\* orchestrator is not initialized or an LLM call fails.
C19_EntryPointsNeverRaise ==
    /\ ~result.raised
    /\ (pc = "END" /\ last_node \in {"invoke", "resume_after_approval"})
       => result.returned /\ result.error # "None"

\* C20: the thread id made for the identifiers (u, p, s) is made for no other
\* triple of identifiers, and parse_thread_id gives (u, p, s) back from it.
C20_ThreadIdsDistinct ==
    config.thread_id # <<>>
    => LET key == <<config.user_id, config.project_id, config.session_id>>
       IN  /\ \A u, p, s \in Identifiers :
                  <<u, p, s>> # key => get_thread_id(u, p, s) # config.thread_id
           /\ last_node = "parse_thread_id" => parsed = key

\* q is a prefix of r
IsPrefix(q, r) == Len(q) <= Len(r) /\ SubSeq(r, 1, Len(q)) = q

\* C23: execution_trace is append-only: in every step its old value is a prefix
\* of its new value; only analyze_output changes it, and analyze_output appends
\* exactly one step, the current step that the preceding think created (it
\* carries the iteration number think wrote) and execute_tool completed.
C23_TraceAppendOnly ==
    [][ /\ IsPrefix(state.execution_trace, state'.execution_trace)
        /\ state'.execution_trace # state.execution_trace => Ran("analyze_output")
        /\ Ran("analyze_output")
           => /\ state'.execution_trace =
                     Append(state.execution_trace, state._current_step)
              /\ state._current_step.iteration = state.current_iteration
              /\ state._current_step.success = state._tool_result.success ]_vars

C23_Witness ==
    /\ last_node = "analyze_output"
    /\ Len(state.execution_trace) = 2
    /\ state.execution_trace[1].iteration = 1
    /\ state.execution_trace[2].iteration = 2

\* C24: after every think, todo_list is the list the decision of that think
\* carries, also when that list is empty.
C24_TodoListReplaced ==
    [][ Ran("think") => state'.todo_list = llm'.updated_todo_list ]_vars

\* C25: the execute_tool that follows a think invokes the Tool Executor with
\* the tool_name and tool_args of the decision as think stored it, rewritten
\* by the anti-thrash rule or not, in the current phase.
C25_ExecutorGetsStoredDecision ==
    [][ Ran("execute_tool")
        => executor_call' = [tool_name |-> state._decision.tool_name,
                             tool_args |-> Or(state._decision.tool_args, "{}"),
                             phase     |-> state.current_phase] ]_vars

\* C26: a think that suppresses a transition request (to the current phase or
\* to the phase just entered) whose decision names no tool, outside the
\* exploitation default, is followed by think again: the trace is unchanged,
\* the task is not complete and generate_response is not the next node.
C26_SuppressedTransitionLoopsToThink ==
    [][ (/\ Ran("think")
         /\ llm'.action = "transition_phase"
         /\ \/ RequestedPhase(llm') = state.current_phase
            \/ RequestedPhase(llm') = state._just_transitioned_to
         /\ ~Truthy(llm'.tool_name)
         /\ state.current_phase # "exploitation")
        => /\ pc' = "think"
           /\ state'.execution_trace = state.execution_trace
           /\ ~state'.task_complete ]_vars

\* C27: process_approval handling "approve" sets the marker
\* _just_transitioned_to to the phase it enters; no step other than that one
\* and think changes the marker, so it is kept across the end of a traversal
\* and the next call; every think leaves it null; and the think that finds the
\* marker set never stores a request for the marked phase nor sets
\* awaiting_user_approval for it.
C27_OneShotMarker ==
    [][ /\ (Ran("process_approval") /\ state.user_approval_response = "approve")
           => /\ state'._just_transitioned_to = state.phase_transition_pending.to_phase
              /\ state'._just_transitioned_to = state'.current_phase
        /\ ~(\/ Ran("think")
             \/ Ran("process_approval") /\ state.user_approval_response = "approve")
           => state'._just_transitioned_to = state._just_transitioned_to
        /\ Ran("think") => state'._just_transitioned_to = "None"
        /\ (/\ Ran("think")
            /\ Truthy(state._just_transitioned_to)
            /\ llm'.action = "transition_phase"
            /\ RequestedPhase(llm') = state._just_transitioned_to)
           => /\ state'.phase_transition_pending = None_request
              /\ ~state'.awaiting_user_approval ]_vars

C27_Witness ==
    /\ last_node = "think"
    /\ call.kind = "resume_after_approval"
    /\ call.decision = "approve"
    /\ call.pending.to_phase = "exploitation"
    /\ state.current_iteration = 2
    /\ llm.action = "transition_phase"
    /\ llm.phase_transition = "exploitation"
    /\ state._just_transitioned_to = "None"
    /\ state.phase_transition_pending = None_request
    /\ ~state.awaiting_user_approval

C28_TraceIterationsConsecutive ==
    \A i \in 1..(Len(state.execution_trace) - 1) :
        state.execution_trace[i + 1].iteration = state.execution_trace[i].iteration + 1

\* the first balanced-brace substring of q: from its first "{" to the "}"
\* that matches it; the empty sequence if there is none
FirstBalanced(q) ==
    LET start == Find(q, "{")
        Depth(j) == Cardinality({i \in start..j : q[i] = "{"})
                    - Cardinality({i \in start..j : q[i] = "}"})
        Closing == {j \in start..Len(q) : Depth(j) = 0}
    IN  IF start = 0 \/ Closing = {} THEN <<>>
        ELSE SubSeq(q, start, CHOOSE j \in Closing : \A m \in Closing : j <= m)

\* C30: the substring of the LLM text handed to the schema validation is the
\* first balanced-brace substring of the text, so a text whose first balanced
\* substring is a valid decision object is parsed as that object, whatever
\* follows it.
C30_FirstBalancedObjectIsParsed ==
    last_node = "think"
    => /\ llm_response.json_str = FirstBalanced(llm_response.text)
       /\ FirstBalanced(llm_response.text) \in DecisionJsonTexts
          => llm_response.valid /\ llm = DecisionOfJson

\* the step is a call of an entry point
EntryPointCalled ==
    pc = "END" /\ last_node' \in {"invoke", "resume_after_approval"}
               /\ (result' # result \/ pc' # pc \/ last_node' # last_node)

\* the larger of two numbers
Max(a, b) == IF a >= b THEN a ELSE b

\* a traversal ends only by await_approval or generate_response reaching END
EndsOnlyAtTerminalNodes ==
    [][ (pc # "END" /\ pc' = "END")
        => \/ Ran("await_approval")
           \/ Ran("generate_response") ]_vars

\* the executions of think are counted by current_iteration (think adds 1 to
\* it and no other step changes it); in the traversal of a call made at count
\* c they number at most max(1, max_iterations - c)
ThinksBounded ==
    [][ /\ Ran("think") => state'.current_iteration = state.current_iteration + 1
        /\ state'.current_iteration # state.current_iteration => Ran("think")
        /\ \A c \in 0..MaxPastCapIterations :
               (pc # "END" /\ call.start_iteration = c)
               => state'.current_iteration - c
                     <= Max(1, state'.max_iterations - c) ]_vars

\* C22 as stated: with every LLM and tool call returning, every call of invoke
\* or resume_after_approval (on the initialized orchestrator) starts a
\* traversal; every traversal reaches END, and only from await_approval or
\* generate_response; and the thinks of one traversal number at most
\* max(1, max_iterations - current_iteration at its start).
C22_EveryCallTraverses ==
    /\ [][ (EntryPointCalled /\ initialized) => pc' = "initialize" ]_vars
    /\ EndsOnlyAtTerminalNodes
    /\ ThinksBounded
    /\ (pc # "END") ~> (pc = "END")

\* C22 amended: the same, except that resume_after_approval for a session
\* without stored state runs no traversal: it returns the error result at
\* once.  Every invoke, and every resume_after_approval for a session with
\* stored state, starts one traversal.
C22_StartedTraversalTerminates ==
    /\ [][ (EntryPointCalled /\ initialized)
           => IF last_node' = "invoke" \/ stored
              THEN pc' = "initialize"
              ELSE /\ pc' = "END"
                   /\ state' = state
                   /\ result' = ErrorResponse("No pending session found") ]_vars
    /\ EndsOnlyAtTerminalNodes
    /\ ThinksBounded
    /\ (pc # "END") ~> (pc = "END")

C22_Witness ==
    /\ pc = "END"
    /\ last_node = "generate_response"
    /\ result.returned
    /\ state.current_iteration = state.max_iterations + 1
    /\ Len(state.execution_trace) = 2

\* C21: calls for one session key are serialized: at no time are two
\* traversals of the key in progress, so no traversal runs its nodes (each of
\* which writes a checkpoint for the key) while another one is under way.
C21_CallsSerialized ==
    ~(pc # "END" /\ second.pc \notin {"None", "END"})

\* the list fields of TargetInfo that merge_from rebuilds from a set
SetFieldsOfTargetInfo ==
    {"ports", "services", "technologies", "vulnerabilities", "sessions"}

\* C31: when the text the output analysis is answered with cannot be parsed
\* or validated, analyze_output takes the whole text as the interpretation
\* (it is the summary of the message the node appends) and extracts nothing:
\* target_info keeps its scalars, the same set of values in every set field
\* and its credentials; the step is appended to execution_trace; the node
\* raises nothing and the traversal goes on.
C31_UnparsedAnalysisFailsSoft ==
    [][ (Ran("analyze_output") /\ ~llm_response'.valid)
        => /\ state'.messages =
                  <<AIMessage(<<"**Step ", ToString(state._current_step.iteration),
                                "** [", state.current_phase, "]\n\n",
                                llm_response'.text>>)>>
           /\ state'.target_info.primary_target = state.target_info.primary_target
           /\ state'.target_info.target_type = state.target_info.target_type
           /\ \A f \in SetFieldsOfTargetInfo :
                  Range(state'.target_info[f]) = Range(state.target_info[f])
           /\ state'.target_info.credentials = state.target_info.credentials
           /\ state'.execution_trace = Append(state.execution_trace, state._current_step)
           /\ pc' \in {"think", "generate_response"}
           /\ result' = result ]_vars

C31_Witness ==
    /\ last_node = "analyze_output"
    /\ ~llm_response.valid
    /\ state.target_info.primary_target # "None"
    /\ state.target_info.ports # <<>>
    /\ state.target_info.credentials # <<>>
    /\ Len(state.execution_trace) = 2

\* C32: after any sequence of merges that starts from the empty TargetInfo
\* of a new session, no two entries of the credentials list are equal by
\* value.
C32_CredentialsDistinct ==
    LET credentials == state.target_info.credentials
    IN  \A i, j \in 1..Len(credentials) :
            i # j => credentials[i] # credentials[j]

\* C33: target_info only accumulates: over every step, each of ports,
\* services, technologies, vulnerabilities and sessions keeps every value it
\* had, every credential present stays present, and a non-empty
\* primary_target stays non-empty.
C33_TargetInfoAccumulates ==
    [][ /\ \A f \in SetFieldsOfTargetInfo :
               Range(state.target_info[f]) \subseteq Range(state'.target_info[f])
        /\ Range(state.target_info.credentials)
               \subseteq Range(state'.target_info.credentials)
        /\ Truthy(state.target_info.primary_target)
               => Truthy(state'.target_info.primary_target) ]_vars

C33_Witness ==
    /\ last_node = "analyze_output"
    /\ Len(state.execution_trace) = 2
    /\ state.target_info.primary_target = "target.example"
    /\ state.target_info.services = <<"http">>
    /\ Range(state.target_info.ports) = {80, 443}
    /\ state.target_info.credentials # <<>>

\* C34: phase_history starts as the one entry informational and changes only
\* by appending: a step that changes current_phase (think applying a
\* transition itself, process_approval committing an approved one) appends
\* exactly one entry, the new current_phase; every other step leaves the list
\* as it is; so the last entry is current_phase in every reachable state.
C34_PhaseHistoryAppendOnly ==
    /\ [](/\ state.phase_history[1] = "informational"
          /\ state.phase_history[Len(state.phase_history)] = state.current_phase)
    /\ [][ IF state'.current_phase # state.current_phase
           THEN /\ Ran("think") \/ Ran("process_approval")
                /\ state'.phase_history =
                       Append(state.phase_history, state'.current_phase)
           ELSE state'.phase_history = state.phase_history ]_vars

C34_Witness ==
    /\ last_node = "think"
    /\ state.phase_history = <<"informational", "exploitation", "informational">>
    /\ state.current_phase = "informational"

\* C35: awaiting_user_approval is true exactly when phase_transition_pending
\* is non-null, in the Session State every traversal leaves behind (and in
\* every state on the way: the two fields are set together and cleared
\* together).
C35_GateFieldsAgree ==
    state.awaiting_user_approval <=> state.phase_transition_pending # None_request

C35_Witness ==
    /\ pc = "END"
    /\ last_node = "generate_response"
    /\ state.awaiting_user_approval
    /\ state.phase_transition_pending # None_request

\* C36: a pending Transition Request always leaves the current phase for a
\* different one that needs approval: while phase_transition_pending is
\* non-null, its from_phase is current_phase, its to_phase differs from its
\* from_phase and is exploitation or post_exploitation.
C36_PendingRequestWellFormed ==
    state.phase_transition_pending # None_request
    => /\ state.phase_transition_pending.from_phase = state.current_phase
       /\ state.phase_transition_pending.to_phase
              # state.phase_transition_pending.from_phase
       /\ state.phase_transition_pending.to_phase
              \in {"exploitation", "post_exploitation"}

C36_Witness ==
    /\ last_node = "await_approval"
    /\ state.current_phase = "exploitation"
    /\ state.phase_transition_pending.from_phase = "exploitation"
    /\ state.phase_transition_pending.to_phase = "post_exploitation"

\* C37: an Ask on a session that has a Transition Request pending and no
\* approval response stored discards the request: initialize sets
\* awaiting_user_approval false and phase_transition_pending null, leaves
\* current_phase and phase_history as they are, and is followed by think, not
\* by process_approval.
C37_AskDiscardsPendingRequest ==
    [][ (/\ Ran("initialize")
         /\ call.kind = "invoke"
         /\ state.phase_transition_pending # None_request
         /\ ~Truthy(state.user_approval_response))
        => /\ ~state'.awaiting_user_approval
           /\ state'.phase_transition_pending = None_request
           /\ state'.current_phase = state.current_phase
           /\ state'.phase_history = state.phase_history
           /\ pc' = "think" ]_vars

C37_Witness ==
    /\ last_node = "initialize"
    /\ pc = "think"
    /\ call.kind = "invoke"
    /\ call.suspended
    /\ call.pending.to_phase = "exploitation"
    /\ state.user_approval_response = "None"
    /\ state.phase_transition_pending = None_request
    /\ ~state.awaiting_user_approval

\* C38: phases are entered in the order informational, exploitation,
\* post_exploitation: a step that makes current_phase post_exploitation
\* starts in a state whose current_phase is exploitation.
C38_PostExploitationOnlyFromExploitation ==
    [][ (/\ state'.current_phase = "post_exploitation"
         /\ state.current_phase # "post_exploitation")
        => state.current_phase = "exploitation" ]_vars

\* C39: the iteration numbers of the steps of execution_trace are strictly
\* increasing in trace order and each lies between 1 and current_iteration;
\* so no iteration number is in the trace twice.
C39_TraceIterationsIncrease ==
    LET trace == state.execution_trace
    IN  /\ \A i \in 1..Len(trace) :
               /\ trace[i].iteration >= 1
               /\ trace[i].iteration <= state.current_iteration
        /\ \A i \in 1..(Len(trace) - 1) :
               trace[i].iteration < trace[i + 1].iteration

C39_Witness ==
    /\ last_node = "analyze_output"
    /\ call.kind = "resume_after_approval"
    /\ Len(state.execution_trace) = 2
    /\ state.execution_trace[1].iteration = 1
    /\ state.execution_trace[2].iteration = 2
    /\ state.current_iteration = 2

====
